---- MODULE Spec2Model ----
(***************************************************************************)
(* A model of the inventory dashboard component (src/src/app.component.ts) *)
(* and of the service it loads from (src/src/services/inventory.service.ts)*)
(*                                                                         *)
(* JavaScript values are modelled as records:                              *)
(*   a string   [t |-> "str", s |-> <<characters>>]                        *)
(*   a number   [t |-> "num", k |-> "fin" | "nan" | "inf", v |-> Int]      *)
(*   undefined  [t |-> "undef"]                                            *)
(* A nullable field is a sequence of length 0 (null) or 1.                 *)
(* Header names and error messages are only compared for equality in the   *)
(* code, so they are TLA+ strings.                                         *)
(***************************************************************************)
EXTENDS Integers, Sequences, FiniteSets, TLC

(***************************************************************************)
(* Bounds of the model.                                                    *)
(***************************************************************************)
\* the most rows a table of the aggregation specification carries
MaxRows == 3
\* the most materials a table of the dashboard specification carries
MaxMaterials == 13
\* the number of loadInventory calls (the constructor's included)
MaxLoads == 2
\* the day of the month "today" (every event happens on that day)
TodayDay == 9
\* the longest text of a cell of the export specification
MaxFieldLen == 2

(***************************************************************************)
(* Program constants.                                                      *)
(***************************************************************************)
itemsPerPage == 12
lowStockThreshold == 10

(***************************************************************************)
(* JavaScript values.                                                      *)
(***************************************************************************)
Str(s) == [t |-> "str", s |-> s]
Fin(n) == [t |-> "num", k |-> "fin", v |-> n]
NaN == [t |-> "num", k |-> "nan", v |-> 0]
PInf == [t |-> "num", k |-> "inf", v |-> 1]
NInf == [t |-> "num", k |-> "inf", v |-> -1]
Undef == [t |-> "undef"]
Null == <<>>
Some(x) == <<x>>

IsStr(c) == c.t = "str"
IsNum(c) == c.t = "num"
IsFinite(n) == n.k = "fin"
isNaN(n) == n.k = "nan"

\* a + b on IEEE numbers whose finite values are integers
JsAdd(a, b) ==
  IF a.k = "nan" \/ b.k = "nan" THEN NaN
  ELSE IF a.k = "inf" /\ b.k = "inf" THEN (IF a.v = b.v THEN a ELSE NaN)
  ELSE IF a.k = "inf" THEN a
  ELSE IF b.k = "inf" THEN b
  ELSE Fin(a.v + b.v)

JsNeg(a) == IF a.k = "nan" THEN NaN ELSE [a EXCEPT !.v = 0 - a.v]

\* a - b
JsSub(a, b) == JsAdd(a, JsNeg(b))

\* Math.abs
MathAbs(a) == IF a.k = "nan" THEN NaN ELSE [a EXCEPT !.v = IF a.v < 0 THEN 0 - a.v ELSE a.v]

\* a < b; false when either is NaN
JsLt(a, b) ==
  /\ a.k # "nan"
  /\ b.k # "nan"
  /\ IF a.k = "inf" THEN a.v < 0 /\ ~(b.k = "inf" /\ b.v < 0)
     ELSE IF b.k = "inf" THEN b.v > 0
     ELSE a.v < b.v

\* a === b on numbers; NaN equals nothing
JsNumEq(a, b) == a.k # "nan" /\ b.k # "nan" /\ a = b

JsLe(a, b) == JsLt(a, b) \/ JsNumEq(a, b)
JsGt(a, b) == JsLt(b, a)

(***************************************************************************)
(* Strings: sequences of one-character strings.                            *)
(***************************************************************************)
Digits == <<"0", "1", "2", "3", "4", "5", "6", "7", "8", "9">>
UpperCase == <<"A", "B", "C", "D", "E", "F", "G", "H", "I", "J", "K", "L", "M",
               "N", "O", "P", "Q", "R", "S", "T", "U", "V", "W", "X", "Y", "Z">>
LowerCase == <<"a", "b", "c", "d", "e", "f", "g", "h", "i", "j", "k", "l", "m",
               "n", "o", "p", "q", "r", "s", "t", "u", "v", "w", "x", "y", "z">>

IndexIn(seq, c) == IF \E i \in 1..Len(seq) : seq[i] = c
                   THEN CHOOSE i \in 1..Len(seq) : seq[i] = c
                   ELSE 0

DigitSet == {Digits[i] : i \in 1..Len(Digits)}
UpperSet == {UpperCase[i] : i \in 1..Len(UpperCase)}
DigitValues == [c \in DigitSet |-> IndexIn(Digits, c) - 1]
LowerOf == [c \in UpperSet |-> LowerCase[IndexIn(UpperCase, c)]]

IsDigit(c) == c \in DigitSet
DigitVal(c) == DigitValues[c]

LowerChar(c) == IF c \in UpperSet THEN LowerOf[c] ELSE c

\* String.prototype.toLowerCase
toLowerCase(s) == [i \in 1..Len(s) |-> LowerChar(s[i])]

IsSpace(c) == c \in {" ", "\t", "\n", "\r"}

RECURSIVE TrimLeft(_)
TrimLeft(s) == IF s # <<>> /\ IsSpace(Head(s)) THEN TrimLeft(Tail(s)) ELSE s

RECURSIVE TrimRight(_)
TrimRight(s) == IF s # <<>> /\ IsSpace(s[Len(s)]) THEN TrimRight(SubSeq(s, 1, Len(s) - 1)) ELSE s

\* String.prototype.trim
trim(s) == TrimRight(TrimLeft(s))

\* String.prototype.includes
includes(s, sub) == \E i \in 0..(Len(s) - Len(sub)) : SubSeq(s, i + 1, i + Len(sub)) = sub

RECURSIVE DigitsValue(_)
DigitsValue(s) == IF s = <<>> THEN 0 ELSE 10 * DigitsValue(SubSeq(s, 1, Len(s) - 1)) + DigitVal(s[Len(s)])

AllDigits(s) == s # <<>> /\ \A i \in 1..Len(s) : IsDigit(s[i])

InfinityLiteral == <<"I", "n", "f", "i", "n", "i", "t", "y">>

\* Number(string) on whitespace, signed decimal integer literals and the
\* Infinity literals; every other string of the model's alphabet is NaN
StringToNumber(s) ==
  LET u == trim(s)
      signed == u # <<>> /\ Head(u) \in {"+", "-"}
      body == IF signed THEN Tail(u) ELSE u
      neg == signed /\ Head(u) = "-"
  IN IF u = <<>> THEN Fin(0)
     ELSE IF body = InfinityLiteral THEN (IF neg THEN NInf ELSE PInf)
     ELSE IF AllDigits(body) THEN Fin(IF neg THEN 0 - DigitsValue(body) ELSE DigitsValue(body))
     ELSE NaN

\* Number(value)
Number(c) == IF IsNum(c) THEN c ELSE IF IsStr(c) THEN StringToNumber(c.s) ELSE NaN

RECURSIVE NatToString(_)
NatToString(n) == IF n < 10 THEN <<Digits[n + 1]>> ELSE NatToString(n \div 10) \o <<Digits[(n % 10) + 1]>>

\* String(number)
NumberToString(n) ==
  IF n.k = "nan" THEN <<"N", "a", "N">>
  ELSE IF n.k = "inf" THEN (IF n.v < 0 THEN <<"-">> ELSE <<>>) \o InfinityLiteral
  ELSE IF n.v < 0 THEN <<"-">> \o NatToString(0 - n.v) ELSE NatToString(n.v)

\* the text Array.prototype.join puts for an element
JoinText(c) == IF IsStr(c) THEN c.s ELSE IF IsNum(c) THEN NumberToString(c) ELSE <<>>

\* a value in a boolean context
Truthy(c) == IF IsStr(c) THEN c.s # <<>> ELSE IF IsNum(c) THEN c.k = "inf" \/ (c.k = "fin" /\ c.v # 0) ELSE FALSE

\* value || fallback
OrElse(c, fallback) == IF Truthy(c) THEN c ELSE fallback

(***************************************************************************)
(* Dates.  Posting dates of the model are the strings 2024-01-DD; the time *)
(* of a date is its day number, and every other string is an invalid date. *)
(***************************************************************************)
IsoPrefix == <<"2", "0", "2", "4", "-", "0", "1", "-">>

TwoDigits(d) == <<Digits[(d \div 10) + 1], Digits[(d % 10) + 1]>>

\* date.toISOString().split('T')[0]
IsoDate(d) == IsoPrefix \o TwoDigits(d)

IsIsoDate(s) ==
  /\ Len(s) = 10
  /\ SubSeq(s, 1, 8) = IsoPrefix
  /\ IsDigit(s[9]) /\ IsDigit(s[10])
  /\ DigitsValue(SubSeq(s, 9, 10)) \in 1..31

\* new Date(value).getTime()
DateTime(c) ==
  IF IsStr(c) THEN (IF IsIsoDate(c.s) THEN Fin(DigitsValue(SubSeq(c.s, 9, 10))) ELSE NaN)
  ELSE IF IsNum(c) THEN (IF IsFinite(c) THEN c ELSE NaN)
  ELSE NaN

(***************************************************************************)
(* processData                                                             *)
(***************************************************************************)
required == <<"Material", "Material Description", "Quantity", "Unit of Entry", "Movement Type">>

SchemaMessage == "Data format is incorrect. Missing columns. Required: Material, Material Description, Quantity, Unit of Entry, Movement Type."
TypeErrorMessage == "trim is not a function"
FetchMessage == "Failed to load inventory data. Please check the API endpoint and network connection."
UnknownMessage == "An unknown error occurred."

\* Array.prototype.indexOf, 0-based, -1 when absent
indexOf(headers, h) == IndexIn(headers, h) - 1

\* row[i]
Cell(row, i) == IF i >= 0 /\ i < Len(row) THEN row[i + 1] ELSE Undef

EmptyString == Str(<<>>)
NoDescription == Str(<<"N", "o", " ", "D", "e", "s", "c", "r", "i", "p", "t", "i", "o", "n">>)
NotAvailable == Str(<<"N", "/", "A">>)
M101 == <<"1", "0", "1">>
M201 == <<"2", "0", "1">>
allowedMovements == {M101, M201}

\* the code -> name table of ./data/cost-centers: undefined for an unmapped code
costCenterMap(code) == IF code = <<"C", "C", "1">> THEN Str(<<"O", "p", "s">>) ELSE Undef

\* the 0-based positions of the columns processData reads
ColumnIndices(headers) ==
  [material |-> indexOf(headers, "Material"),
   description |-> indexOf(headers, "Material Description"),
   quantity |-> indexOf(headers, "Quantity"),
   unit |-> indexOf(headers, "Unit of Entry"),
   movementType |-> indexOf(headers, "Movement Type"),
   user |-> indexOf(headers, "User Name"),
   postingDate |-> indexOf(headers, "Posting Date"),
   costCenter |-> indexOf(headers, "Cost Center"),
   reservation |-> indexOf(headers, "Reservation"),
   doc |-> indexOf(headers, "Material Document"),
   headerText |-> indexOf(headers, "Document Header Text"),
   text |-> indexOf(headers, "Text")]

\* mutant: only the first column is looked for
MissingRequiredFirstOnly(headers) == indexOf(headers, required[1]) = -1

MissingRequired(headers) == \E i \in 1..Len(required) : indexOf(headers, required[i]) = -1

\* summaryMap.has(material): the position of the key, 0 when absent
MapIndex(map, material) ==
  IF \E i \in 1..Len(map) : map[i].material = material
  THEN CHOOSE i \in 1..Len(map) : map[i].material = material
  ELSE 0

NewSummary(material, row, idx) ==
  [material |-> material,
   materialDescription |-> OrElse(Cell(row, idx.description), NoDescription),
   totalIn |-> Fin(0), totalOut |-> Fin(0), balance |-> Fin(0),
   unit |-> OrElse(Cell(row, idx.unit), NotAvailable),
   inTransactions |-> <<>>, outTransactions |-> <<>>]

MakeTransaction(row, idx, quantity, costCenterCode) ==
  [postingDate |-> Cell(row, idx.postingDate),
   quantity |-> MathAbs(quantity),
   user |-> OrElse(Cell(row, idx.user), EmptyString),
   costCenter |-> OrElse(costCenterMap(trim(costCenterCode.s)), costCenterCode),
   reservation |-> OrElse(Cell(row, idx.reservation), EmptyString),
   document |-> OrElse(Cell(row, idx.doc), EmptyString),
   headerText |-> OrElse(Cell(row, idx.headerText), EmptyString),
   text |-> OrElse(Cell(row, idx.text), EmptyString)]

\* totalIn += quantity
AddIn(totalIn, quantity) == JsAdd(totalIn, quantity)

\* totalOut += Math.abs(quantity)
AddOut(totalOut, quantity) == JsAdd(totalOut, MathAbs(quantity))

\* one iteration of the loop over the rows; acc.thrown records a TypeError
\* (calling trim on a number), after which nothing more happens
FoldRow(acc, row, idx) ==
  LET mtCell == Cell(row, idx.movementType)
      material == Cell(row, idx.material)
      quantity == Number(Cell(row, idx.quantity))
      costCenterCode == OrElse(Cell(row, idx.costCenter), EmptyString)
      at == MapIndex(acc.map, material)
      map1 == IF at = 0 THEN Append(acc.map, NewSummary(material, row, idx)) ELSE acc.map
      pos == IF at = 0 THEN Len(map1) ELSE at
      tx == MakeTransaction(row, idx, quantity, costCenterCode)
      cur == map1[pos]
  IN IF acc.thrown THEN acc
     ELSE IF IsNum(mtCell) THEN [acc EXCEPT !.thrown = TRUE]
     ELSE IF ~(IsStr(mtCell) /\ trim(mtCell.s) \in allowedMovements) THEN acc
     ELSE IF ~Truthy(material) \/ isNaN(quantity) THEN acc
     ELSE IF IsNum(costCenterCode) THEN [acc EXCEPT !.thrown = TRUE]
     ELSE IF trim(mtCell.s) = M101
          THEN [acc EXCEPT !.map = [map1 EXCEPT ![pos] =
                  [cur EXCEPT !.totalIn = AddIn(cur.totalIn, quantity),
                              !.inTransactions = Append(cur.inTransactions, tx)]]]
          ELSE [acc EXCEPT !.map = [map1 EXCEPT ![pos] =
                  [cur EXCEPT !.totalOut = AddOut(cur.totalOut, quantity),
                              !.outTransactions = Append(cur.outTransactions, tx)]]]

RECURSIVE FoldRows(_, _, _)
FoldRows(acc, rows, idx) ==
  IF rows = <<>> THEN acc ELSE FoldRows(FoldRow(acc, Head(rows), idx), Tail(rows), idx)

\* the comparator of the transaction sorts is positive: b goes before a
TxAfter(a, b) == JsGt(JsSub(DateTime(b.postingDate), DateTime(a.postingDate)), Fin(0))

RECURSIVE InsertTx(_, _)
InsertTx(sorted, x) ==
  IF sorted # <<>> /\ TxAfter(sorted[Len(sorted)], x)
  THEN Append(InsertTx(SubSeq(sorted, 1, Len(sorted) - 1), x), sorted[Len(sorted)])
  ELSE Append(sorted, x)

RECURSIVE SortTransactions(_)
\* the stable Array.prototype.sort, descending by posting date
SortTransactions(txs) ==
  IF txs = <<>> THEN <<>>
  ELSE InsertTx(SortTransactions(SubSeq(txs, 1, Len(txs) - 1)), txs[Len(txs)])

\* value.balance = value.totalIn - value.totalOut
Balance(totalIn, totalOut) == JsSub(totalIn, totalOut)

Finish(value) ==
  [value EXCEPT !.balance = Balance(value.totalIn, value.totalOut),
                !.inTransactions = SortTransactions(value.inTransactions),
                !.outTransactions = SortTransactions(value.outTransactions)]

\* the summaries, or the message of the error thrown
processData(response) ==
  LET idx == ColumnIndices(response.headers)
      acc == FoldRows([thrown |-> FALSE, map |-> <<>>], response.rows, idx)
  IN IF MissingRequired(response.headers)
     THEN [ok |-> FALSE, message |-> SchemaMessage, data |-> <<>>]
     ELSE IF acc.thrown
     THEN [ok |-> FALSE, message |-> TypeErrorMessage, data |-> <<>>]
     ELSE [ok |-> TRUE, message |-> "", data |-> [i \in 1..Len(acc.map) |-> Finish(acc.map[i])]]

(***************************************************************************)
(* The state of the component.                                             *)
(*   loads     one record per getInventoryData() subscription, in the      *)
(*             order of the loadInventory calls: "pending" while the       *)
(*             request is in flight, then "next" or "error" with the       *)
(*             response received and the time it was handled               *)
(*   clock     the time new Date() returns (one tick per handled response) *)
(*   download  the file the last export handed to the browser, or null     *)
(***************************************************************************)
VARIABLES inventoryData, loading, error, lastUpdated,
          searchTerm, movementTypeFilter, sortConfig, showLowStockOnly,
          currentPage, selectedMaterial, detailedViewType, dateFrom, dateTo,
          loads, clock, download

vars == <<inventoryData, loading, error, lastUpdated,
          searchTerm, movementTypeFilter, sortConfig, showLowStockOnly,
          currentPage, selectedMaterial, detailedViewType, dateFrom, dateTo,
          loads, clock, download>>

coreVars == <<inventoryData, loading, error, lastUpdated, loads, clock>>
filterVars == <<searchTerm, movementTypeFilter, sortConfig, showLowStockOnly>>
modalVars == <<selectedMaterial, detailedViewType, dateFrom, dateTo>>

MaterialDescriptionColumn == <<"m", "a", "t", "e", "r", "i", "a", "l", "D", "e", "s", "c", "r", "i", "p", "t", "i", "o", "n">>
BalanceColumn == <<"b", "a", "l", "a", "n", "c", "e">>
Asc == <<"a", "s", "c">>
Desc == <<"d", "e", "s", "c">>

(***************************************************************************)
(* Computed signals.                                                       *)
(***************************************************************************)
LowStock(item) == JsLe(item.balance, Fin(lowStockThreshold))

MatchesTerm(item, term) ==
  \/ includes(toLowerCase(item.material.s), term)
  \/ includes(toLowerCase(item.materialDescription.s), term)

baseFilteredInventory ==
  LET term == toLowerCase(searchTerm)
      Keep(item) ==
        /\ showLowStockOnly => LowStock(item)
        /\ movementTypeFilter = "101" => JsGt(item.totalIn, Fin(0))
        /\ movementTypeFilter = "201" => JsGt(item.totalOut, Fin(0))
        /\ term # <<>> => MatchesTerm(item, term)
  IN SelectSeq(inventoryData, Keep)

\* the collation rank of a character: punctuation, digits, letters
Collation == <<"\n", " ", "\"", ",", "-", "/">> \o Digits \o LowerCase

CollationSet == {Collation[i] : i \in 1..Len(Collation)}
RankOf == [c \in CollationSet |-> IndexIn(Collation, c)]

CharRank(c) == IF LowerChar(c) \in CollationSet THEN RankOf[LowerChar(c)] ELSE 0

RECURSIVE CompareRanks(_, _)
CompareRanks(a, b) ==
  IF a = <<>> /\ b = <<>> THEN 0
  ELSE IF a = <<>> THEN -1
  ELSE IF b = <<>> THEN 1
  ELSE IF CharRank(Head(a)) < CharRank(Head(b)) THEN -1
  ELSE IF CharRank(Head(a)) > CharRank(Head(b)) THEN 1
  ELSE CompareRanks(Tail(a), Tail(b))

RECURSIVE CompareCase(_, _)
\* equal up to case: the lower-case letter first
CompareCase(a, b) ==
  IF a = <<>> \/ b = <<>> THEN 0
  ELSE IF Head(a) = Head(b) THEN CompareCase(Tail(a), Tail(b))
  ELSE IF LowerChar(Head(a)) = Head(a) THEN -1 ELSE 1

\* String.prototype.localeCompare on the model's alphabet
localeCompare(a, b) == IF CompareRanks(a, b) # 0 THEN CompareRanks(a, b) ELSE CompareCase(a, b)

\* the comparator of sortedInventory, as a number
Comparison(a, b) ==
  LET comparison ==
        IF sortConfig.column = MaterialDescriptionColumn
        THEN Fin(localeCompare(a.materialDescription.s, b.materialDescription.s))
        ELSE IF sortConfig.column = BalanceColumn
        THEN JsSub(a.balance, b.balance)
        ELSE Fin(0)
  IN IF sortConfig.direction = Asc THEN comparison ELSE JsNeg(comparison)

RECURSIVE InsertItem(_, _)
InsertItem(sorted, x) ==
  IF sorted # <<>> /\ JsGt(Comparison(sorted[Len(sorted)], x), Fin(0))
  THEN Append(InsertItem(SubSeq(sorted, 1, Len(sorted) - 1), x), sorted[Len(sorted)])
  ELSE Append(sorted, x)

RECURSIVE SortItems(_)
SortItems(items) ==
  IF items = <<>> THEN <<>>
  ELSE InsertItem(SortItems(SubSeq(items, 1, Len(items) - 1)), items[Len(items)])

sortedInventory == SortItems(baseFilteredInventory)

\* Array.prototype.slice(start, end), 0-based, end exclusive
Slice(seq, start, end) ==
  LET lo == IF start > Len(seq) THEN Len(seq) ELSE start
      hi == IF end > Len(seq) THEN Len(seq) ELSE end
  IN SubSeq(seq, lo + 1, hi)

paginatedInventory ==
  LET startIndex == (currentPage - 1) * itemsPerPage
  IN Slice(sortedInventory, startIndex, startIndex + itemsPerPage)

\* Math.ceil(a / b) for a >= 0, b > 0
MathCeilDiv(a, b) == IF a % b = 0 THEN a \div b ELSE (a \div b) + 1

totalPages == MathCeilDiv(Len(baseFilteredInventory), itemsPerPage)

InRange(tx, from, to) ==
  LET txDate == DateTime(tx.postingDate)
  IN /\ ~(from # Null /\ JsLt(txDate, from[1]))
     /\ ~(to # Null /\ JsGt(txDate, to[1]))

\* null, or the transactions of the open detailed view within the date range
detailedTransactionsView ==
  IF detailedViewType = Null \/ selectedMaterial = Null THEN Null
  ELSE LET type == detailedViewType[1]
           material == selectedMaterial[1]
           from == IF dateFrom # <<>> THEN Some(DateTime(Str(dateFrom))) ELSE Null
           to == IF dateTo # <<>> THEN Some(DateTime(Str(dateTo))) ELSE Null
           transactions == IF type = "in" THEN material.inTransactions ELSE material.outTransactions
           Keep(tx) == InRange(tx, from, to)
       IN Some([type |-> type, transactions |-> SelectSeq(transactions, Keep)])

(***************************************************************************)
(* Construction: the constructor calls loadInventory().                    *)
(***************************************************************************)
Pending == [status |-> "pending", response |-> <<>>, at |-> 0]

Init ==
  /\ inventoryData = <<>>
  /\ loading = TRUE
  /\ error = Null
  /\ lastUpdated = Null
  /\ searchTerm = <<>>
  /\ movementTypeFilter = "all"
  /\ sortConfig = [column |-> MaterialDescriptionColumn, direction |-> Asc]
  /\ showLowStockOnly = FALSE
  /\ currentPage = 1
  /\ selectedMaterial = Null
  /\ detailedViewType = Null
  /\ dateFrom = <<>>
  /\ dateTo = <<>>
  /\ loads = <<Pending>>
  /\ clock = 1
  /\ download = Null

(***************************************************************************)
(* Core data handling.                                                     *)
(***************************************************************************)
loadInventory ==
  /\ Len(loads) < MaxLoads
  /\ loading' = TRUE
  /\ error' = Null
  /\ loads' = Append(loads, Pending)
  /\ UNCHANGED <<inventoryData, lastUpdated, clock, download>>
  /\ UNCHANGED filterVars
  /\ UNCHANGED currentPage
  /\ UNCHANGED modalVars

\* the next callback of subscription i, with the response the server sent
subscribeNext(i, response) ==
  /\ i \in 1..Len(loads)
  /\ loads[i].status = "pending"
  /\ LET processedData == processData(response)
     IN IF processedData.ok
        THEN /\ inventoryData' = processedData.data
             /\ lastUpdated' = Some(clock)
             /\ error' = error
        ELSE /\ error' = Some(processedData.message)
             /\ UNCHANGED <<inventoryData, lastUpdated>>
  /\ loading' = FALSE
  /\ loads' = [loads EXCEPT ![i] = [status |-> "next", response |-> response, at |-> clock]]
  /\ clock' = clock + 1
  /\ UNCHANGED download
  /\ UNCHANGED filterVars
  /\ UNCHANGED currentPage
  /\ UNCHANGED modalVars

\* err.message || 'An unknown error occurred.'
ErrorText(message) == IF message # "" THEN message ELSE UnknownMessage

\* the error callback of subscription i: the service's catchError rethrew
subscribeError(i) ==
  /\ i \in 1..Len(loads)
  /\ loads[i].status = "pending"
  /\ error' = Some(ErrorText(FetchMessage))
  /\ loading' = FALSE
  /\ loads' = [loads EXCEPT ![i] = [status |-> "error", response |-> <<>>, at |-> clock]]
  /\ clock' = clock + 1
  /\ UNCHANGED <<inventoryData, lastUpdated, download>>
  /\ UNCHANGED filterVars
  /\ UNCHANGED currentPage
  /\ UNCHANGED modalVars

(***************************************************************************)
(* Event handlers.                                                         *)
(***************************************************************************)
onSearch(value) ==
  /\ searchTerm' = value
  /\ currentPage' = 1
  /\ UNCHANGED <<movementTypeFilter, sortConfig, showLowStockOnly, download>>
  /\ UNCHANGED coreVars
  /\ UNCHANGED modalVars

onMovementTypeChange(value) ==
  /\ movementTypeFilter' = value
  /\ currentPage' = 1
  /\ UNCHANGED <<searchTerm, sortConfig, showLowStockOnly, download>>
  /\ UNCHANGED coreVars
  /\ UNCHANGED modalVars

RECURSIVE Split(_, _)
\* String.prototype.split on a one-character separator
Split(s, sep) ==
  IF \E i \in 1..Len(s) : s[i] = sep
  THEN LET i == CHOOSE j \in 1..Len(s) : s[j] = sep /\ \A k \in 1..(j - 1) : s[k] # sep
       IN <<SubSeq(s, 1, i - 1)>> \o Split(SubSeq(s, i + 1, Len(s)), sep)
  ELSE <<s>>

onSortChange(value) ==
  /\ LET parts == Split(value, "-")
     IN sortConfig' = [column |-> parts[1], direction |-> parts[2]]
  /\ currentPage' = 1
  /\ UNCHANGED <<searchTerm, movementTypeFilter, showLowStockOnly, download>>
  /\ UNCHANGED coreVars
  /\ UNCHANGED modalVars

onShowLowStockOnlyChange(checked) ==
  /\ showLowStockOnly' = checked
  /\ currentPage' = 1
  /\ UNCHANGED <<searchTerm, movementTypeFilter, sortConfig, download>>
  /\ UNCHANGED coreVars
  /\ UNCHANGED modalVars

(***************************************************************************)
(* Modal management.                                                       *)
(***************************************************************************)
showItemDashboard(material) ==
  /\ selectedMaterial' = Some(material)
  /\ UNCHANGED <<detailedViewType, dateFrom, dateTo, currentPage, download>>
  /\ UNCHANGED coreVars
  /\ UNCHANGED filterVars

closeDashboard ==
  /\ selectedMaterial' = Null
  /\ detailedViewType' = Null
  /\ dateFrom' = <<>>
  /\ dateTo' = <<>>
  /\ UNCHANGED <<currentPage, download>>
  /\ UNCHANGED coreVars
  /\ UNCHANGED filterVars

\* toISOString throws a RangeError on an invalid date: dateTo is already set
showDetailedView(type) ==
  /\ LET transactions == IF selectedMaterial = Null THEN <<>>
                         ELSE IF type = "in" THEN selectedMaterial[1].inTransactions
                         ELSE selectedMaterial[1].outTransactions
         oldestTxDate == DateTime(transactions[Len(transactions)].postingDate)
     IN IF selectedMaterial = Null \/ transactions = <<>>
        THEN UNCHANGED <<detailedViewType, dateFrom, dateTo>>
        ELSE /\ dateTo' = IsoDate(TodayDay)
             /\ IF isNaN(oldestTxDate)
                THEN UNCHANGED <<detailedViewType, dateFrom>>
                ELSE /\ dateFrom' = IsoDate(oldestTxDate.v)
                     /\ detailedViewType' = Some(type)
  /\ UNCHANGED <<selectedMaterial, currentPage, download>>
  /\ UNCHANGED coreVars
  /\ UNCHANGED filterVars

closeDetailedView ==
  /\ detailedViewType' = Null
  /\ dateFrom' = <<>>
  /\ dateTo' = <<>>
  /\ UNCHANGED <<selectedMaterial, currentPage, download>>
  /\ UNCHANGED coreVars
  /\ UNCHANGED filterVars

handleEscapeKey ==
  IF detailedViewType # Null THEN closeDetailedView
  ELSE IF selectedMaterial # Null THEN closeDashboard
  ELSE UNCHANGED vars

(***************************************************************************)
(* Pagination handlers.                                                    *)
(***************************************************************************)
\* mutant: one page past the last is accepted
PageAcceptedPastEnd(page) == page > 0 /\ page <= totalPages + 1

PageAccepted(page) == page > 0 /\ page <= totalPages

goToPage(page) ==
  /\ currentPage' = IF PageAccepted(page) THEN page ELSE currentPage
  /\ UNCHANGED download
  /\ UNCHANGED coreVars
  /\ UNCHANGED filterVars
  /\ UNCHANGED modalVars

nextPage == goToPage(currentPage + 1)

prevPage == goToPage(currentPage - 1)

onDateChange(value, type) ==
  /\ IF type = "from" THEN dateFrom' = value /\ UNCHANGED dateTo
     ELSE dateTo' = value /\ UNCHANGED dateFrom
  /\ UNCHANGED <<selectedMaterial, detailedViewType, currentPage, download>>
  /\ UNCHANGED coreVars
  /\ UNCHANGED filterVars

(***************************************************************************)
(* CSV export.                                                             *)
(***************************************************************************)
RECURSIVE Join(_, _)
\* Array.prototype.join on texts
Join(texts, sep) ==
  IF texts = <<>> THEN <<>>
  ELSE IF Len(texts) = 1 THEN texts[1]
  ELSE texts[1] \o sep \o Join(Tail(texts), sep)

RECURSIVE DoubleQuotes(_)
\* s.replace(/"/g, '""')
DoubleQuotes(s) ==
  IF s = <<>> THEN <<>>
  ELSE IF Head(s) = "\"" THEN <<"\"", "\"">> \o DoubleQuotes(Tail(s))
  ELSE <<Head(s)>> \o DoubleQuotes(Tail(s))

\* `"${s.replace(/"/g, '""')}"`
Quoted(s) == <<"\"">> \o DoubleQuotes(s) \o <<"\"">>

\* a text written as it is
Raw(c) == JoinText(c)

InventoryHeaders ==
  <<<<"M", "a", "t", "e", "r", "i", "a", "l">>,
    <<"M", "a", "t", "e", "r", "i", "a", "l", "D", "e", "s", "c", "r", "i", "p", "t", "i", "o", "n">>,
    <<"T", "o", "t", "a", "l", "I", "n">>,
    <<"T", "o", "t", "a", "l", "O", "u", "t">>,
    <<"B", "a", "l", "a", "n", "c", "e">>,
    <<"U", "n", "i", "t">>>>

TransactionHeaders ==
  <<<<"P", "o", "s", "t", "i", "n", "g", "D", "a", "t", "e">>,
    <<"Q", "u", "a", "n", "t", "i", "t", "y">>,
    <<"U", "s", "e", "r">>,
    <<"C", "o", "s", "t", "C", "e", "n", "t", "e", "r">>,
    <<"D", "o", "c", "u", "m", "e", "n", "t">>,
    <<"R", "e", "s", "e", "r", "v", "a", "t", "i", "o", "n">>,
    <<"H", "e", "a", "d", "e", "r", "T", "e", "x", "t">>,
    <<"T", "e", "x", "t">>>>

InventoryRow(item) ==
  Join(<<Raw(item.material),
         Quoted(item.materialDescription.s),
         Raw(item.totalIn),
         Raw(item.totalOut),
         Raw(item.balance),
         Raw(item.unit)>>, <<",">>)

\* safe(str) of exportToCsv
safe(c) == Quoted(OrElse(c, EmptyString).s)

TransactionRow(tx, type) ==
  LET quantity == IF type = "in" THEN tx.quantity ELSE JsNeg(tx.quantity)
  IN Join(<<Raw(tx.postingDate),
            Raw(quantity),
            safe(tx.user),
            safe(tx.costCenter),
            safe(tx.document),
            safe(tx.reservation),
            safe(tx.headerText),
            safe(tx.text)>>, <<",">>)

\* [headers.join(','), ...rows].join('\n')
CsvContent(headers, rows) == Join(<<Join(headers, <<",">>)>> \o rows, <<"\n">>)

exportInventoryToCsv ==
  /\ LET dataToExport == sortedInventory
     IN IF dataToExport = <<>> THEN UNCHANGED download
        ELSE download' = Some([kind |-> "inventory",
                               content |-> CsvContent(InventoryHeaders,
                                             [i \in 1..Len(dataToExport) |-> InventoryRow(dataToExport[i])]),
                               records |-> dataToExport,
                               type |-> "in"])
  /\ UNCHANGED currentPage
  /\ UNCHANGED coreVars
  /\ UNCHANGED filterVars
  /\ UNCHANGED modalVars

\* replace is not a function of a number: safe throws a TypeError
SafeThrows(tx) ==
  \E c \in {tx.user, tx.costCenter, tx.document, tx.reservation, tx.headerText, tx.text} : IsNum(c) /\ Truthy(c)

exportToCsv ==
  /\ LET details == detailedTransactionsView
     IN IF details = Null THEN UNCHANGED download
        ELSE IF details[1].transactions = <<>> THEN UNCHANGED download
        ELSE IF \E i \in 1..Len(details[1].transactions) : SafeThrows(details[1].transactions[i])
        THEN UNCHANGED download
        ELSE download' = Some([kind |-> "transactions",
                               content |-> CsvContent(TransactionHeaders,
                                             [i \in 1..Len(details[1].transactions) |->
                                                TransactionRow(details[1].transactions[i], details[1].type)]),
                               records |-> details[1].transactions,
                               type |-> details[1].type])
  /\ UNCHANGED currentPage
  /\ UNCHANGED coreVars
  /\ UNCHANGED filterVars
  /\ UNCHANGED modalVars

(***************************************************************************)
(* The responses of the server.                                            *)
(***************************************************************************)
FullHeaders == <<"Material", "Material Description", "Quantity", "Unit of Entry", "Movement Type",
                 "User Name", "Posting Date", "Cost Center", "Reservation", "Material Document",
                 "Document Header Text", "Text">>

\* the required columns without the i-th, and no optional column
HeadersWithout(i) == SubSeq(required, 1, i - 1) \o SubSeq(required, i + 1, Len(required))

Row(material, description, quantity, unit, movement, user, day) ==
  <<Str(material), Str(description), quantity, Str(unit), movement,
    Str(user), Str(IsoDate(day)), Str(<<"C", "C", "1">>), EmptyString,
    Str(<<"D">> \o NatToString(day)), EmptyString, EmptyString>>

MaterialId(k) == <<"M">> \o NatToString(k)
ItemName(k) == <<"I", "t", "e", "m", " ">> \o NatToString(MaxMaterials + 1 - k)

\* n materials: material k received k pieces on day k, and the even ones
\* issued one piece a day later
GenTable(n) ==
  [headers |-> FullHeaders,
   rows |-> [k \in 1..n |-> Row(MaterialId(k), ItemName(k), Fin(k), <<"E", "A">>, Str(M101), <<"u">>, (k % 9) + 1)]
            \o [j \in 1..(n \div 2) |-> Row(MaterialId(2 * j), <<>>, Fin(-1), <<"E", "A">>, Str(M201), <<"u">>, ((2 * j) % 9) + 2)]]

\* the table without its Quantity column
BadTable == [headers |-> HeadersWithout(3), rows |-> <<<<Str(MaterialId(1)), Str(ItemName(1)), Str(<<"E", "A">>), Str(M101)>>>>]

UiResponses == {GenTable(2), GenTable(MaxMaterials), BadTable}

\* the cards of the page a click opens in the model: the first and the last
Clickable(page) == {1, Len(page)} \cap (1..Len(page))

SearchTerms == {<<>>, <<"M", "1">>}
SortValues == {MaterialDescriptionColumn \o <<"-">> \o Asc, BalanceColumn \o <<"-">> \o Desc}

\* a response whose Movement Type cell is a number: trim is not a function
NumericTable == [headers |-> FullHeaders,
                 rows |-> <<Row(MaterialId(1), ItemName(1), Fin(1), <<"E", "A">>, Fin(101), <<"u">>, 1)>>]

LoadResponses == UiResponses \cup {GenTable(1), NumericTable}

\* the subscriptions whose request is in flight
PendingLoads == {i \in 1..Len(loads) : loads[i].status = "pending"}

PageInputs == 0..(MathCeilDiv(MaxMaterials, itemsPerPage) + 1)

(***************************************************************************)
(* The dashboard: loads, filters, pagination and the modal.                *)
(***************************************************************************)
Next ==
  \/ loadInventory
  \/ \E i \in PendingLoads, r \in UiResponses : subscribeNext(i, r)
  \/ \E i \in PendingLoads : subscribeError(i)
  \/ \E v \in SearchTerms : onSearch(v)
  \/ \E v \in {"all", "201"} : onMovementTypeChange(v)
  \/ \E v \in SortValues : onSortChange(v)
  \/ \E v \in BOOLEAN : onShowLowStockOnlyChange(v)
  \/ LET page == paginatedInventory
     IN \E i \in Clickable(page) : showItemDashboard(page[i])
  \/ closeDashboard
  \/ \E type \in {"in", "out"} : showDetailedView(type)
  \/ closeDetailedView
  \/ handleEscapeKey
  \/ \E p \in PageInputs : goToPage(p)
  \/ nextPage
  \/ prevPage

Spec == Init /\ [][Next]_vars

(***************************************************************************)
(* The loads alone.  No other handler reads or writes loading, error,      *)
(* inventoryData, lastUpdated or the subscriptions, so the behaviours of   *)
(* these variables are those of the whole dashboard.                       *)
(***************************************************************************)
NextLoads ==
  \/ loadInventory
  \/ \E i \in PendingLoads, r \in LoadResponses : subscribeNext(i, r)
  \/ \E i \in PendingLoads : subscribeError(i)

SpecLoads == Init /\ [][NextLoads]_vars

(***************************************************************************)
(* Loads, filters and pagination.  The modal handlers neither write        *)
(* currentPage, the filters or the data, nor do the handlers below read    *)
(* the modal's state.                                                      *)
(***************************************************************************)
NextPages ==
  \/ loadInventory
  \/ \E i \in PendingLoads, r \in UiResponses : subscribeNext(i, r)
  \/ \E i \in PendingLoads : subscribeError(i)
  \/ \E v \in SearchTerms : onSearch(v)
  \/ \E v \in {"all", "101", "201"} : onMovementTypeChange(v)
  \/ \E v \in SortValues : onSortChange(v)
  \/ \E v \in BOOLEAN : onShowLowStockOnlyChange(v)
  \/ \E p \in PageInputs \cup {-1} : goToPage(p)
  \/ nextPage
  \/ prevPage

SpecPages == Init /\ [][NextPages]_vars

\* what a failed load attempt is
RequiredColumns == {"Material", "Material Description", "Quantity", "Unit of Entry", "Movement Type"}

LacksRequiredColumn(response) ==
  \E h \in RequiredColumns : \A j \in 1..Len(response.headers) : response.headers[j] # h

FailedAttempt(load) ==
  \/ load.status = "error"
  \/ load.status = "next" /\ LacksRequiredColumn(load.response)

(***************************************************************************)
(* C3: a load attempt that fails (the table lacks a required column, or    *)
(* the fetch fails) ends with error non-null and loading false, and       *)
(* neither starting it nor its failure changes inventoryData or            *)
(* lastUpdated.                                                            *)
(***************************************************************************)
C3_FailedLoadKeepsData ==
  [][/\ Len(loads') > Len(loads) => inventoryData' = inventoryData /\ lastUpdated' = lastUpdated
     /\ \A i \in 1..Len(loads) :
          (loads[i].status = "pending" /\ FailedAttempt(loads'[i]))
          => /\ error' # Null
             /\ loading' = FALSE
             /\ inventoryData' = inventoryData
             /\ lastUpdated' = lastUpdated]_vars

\* a load failed after an earlier one had stored its data
C3_Witness ==
  /\ inventoryData # <<>>
  /\ lastUpdated # Null
  /\ error # Null
  /\ loading = FALSE
  /\ \E i \in 1..Len(loads) : FailedAttempt(loads[i]) /\ loads[i].at > lastUpdated[1]

\* the least k with k * d >= n
CeilOf(n, d) == CHOOSE k \in 0..n : k * d >= n /\ (k - 1) * d < n

OnlyPageChanges == UNCHANGED <<coreVars, filterVars, modalVars, download>>

PageStep(p) ==
  IF 1 <= p /\ p <= CeilOf(Len(baseFilteredInventory), 12)
  THEN currentPage' = p /\ OnlyPageChanges
  ELSE UNCHANGED vars

(***************************************************************************)
(* C4: totalPages is ceil(n / 12) for the n base-filtered items; goToPage  *)
(* sets currentPage to p exactly when 1 <= p <= totalPages and otherwise   *)
(* changes nothing; nextPage and prevPage are goToPage(currentPage +- 1).  *)
(***************************************************************************)
C4_PageNavigation ==
  [][/\ totalPages = CeilOf(Len(baseFilteredInventory), 12)
     /\ \A p \in PageInputs \cup {-1} : goToPage(p) => PageStep(p)
     /\ nextPage => PageStep(currentPage + 1)
     /\ prevPage => PageStep(currentPage - 1)]_vars

\* page 2 of 2 was opened: the next page is refused there
C4_Witness == currentPage = 2 /\ totalPages = 2

(***************************************************************************)
(* Aggregation: the first load answered by any table of at most MaxRows    *)
(* rows drawn from a pool of rows, under the full header row, under the    *)
(* required columns alone, or with one required column missing.            *)
(***************************************************************************)
Bolt == <<"B", "o", "l", "t">>

PlainRows ==
  {Row(MaterialId(1), d, q, <<"E", "A">>, Str(m), <<"u">>, IF q = Fin(10) THEN 2 ELSE 1) :
     d \in {<<>>, Bolt}, q \in {Fin(10), Fin(-5)}, m \in {M101, M201}}
  \cup {Row(MaterialId(2), d, Fin(10), <<"E", "A">>, Str(m), <<"u">>, 1) :
     d \in {<<>>, Bolt}, m \in {M101, M201}}

OddRows ==
  {Row(<<>>, Bolt, Fin(10), <<"E", "A">>, Str(M101), <<"u">>, 1),
   Row(MaterialId(1), Bolt, Str(<<"x">>), <<"E", "A">>, Str(M101), <<"u">>, 1),
   Row(MaterialId(1), Bolt, Str(InfinityLiteral), <<"E", "A">>, Str(M101), <<"u">>, 1),
   Row(MaterialId(1), Bolt, EmptyString, <<"E", "A">>, Str(M201), <<"u">>, 1),
   Row(MaterialId(1), Bolt, Fin(10), <<"E", "A">>, Str(<<"3", "0", "1">>), <<"u">>, 1),
   Row(MaterialId(2), Bolt, Str(<<"7">>), <<>>, Str(<<" ", "1", "0", "1", " ">>), <<"u">>, 3),
   Row(MaterialId(2), Bolt, Fin(10), <<"E", "A">>, Fin(101), <<"u">>, 1)}

RowPool == PlainRows \cup OddRows

\* the sequences of at most n rows of the pool
RowSeqs(n) == UNION {[1..k -> RowPool] : k \in 0..n}

\* the first five cells of each row: the required columns alone
RequiredOnly(rows) == [i \in 1..Len(rows) |-> SubSeq(rows[i], 1, Len(required))]

AggregationTables(n) ==
  {[headers |-> FullHeaders, rows |-> rows] : rows \in RowSeqs(n)}
  \cup {[headers |-> required, rows |-> RequiredOnly(rows)] : rows \in RowSeqs(n)}
  \cup {[headers |-> HeadersWithout(i), rows |-> BadTable.rows] : i \in 1..Len(required)}

NextAggregation == \E i \in PendingLoads : \E r \in AggregationTables(MaxRows) : subscribeNext(i, r)

SpecAggregation == Init /\ [][NextAggregation]_vars

\* the response inventoryData was computed from
SourceOfData == loads[CHOOSE i \in 1..Len(loads) : loads[i].status = "next" /\ loads[i].at = lastUpdated[1]].response

\* the cell of a row under a header
CellUnder(response, row, h) == row[CHOOSE j \in 1..Len(response.headers) : response.headers[j] = h]

MovementOf(response, row) ==
  LET c == CellUnder(response, row, "Movement Type")
  IN IF IsStr(c) THEN trim(c.s) ELSE <<>>

\* the rows the code admits: movement 101 or 201, a material, a quantity that is not NaN
AdmittedRow(response, row) ==
  /\ MovementOf(response, row) \in {M101, M201}
  /\ Truthy(CellUnder(response, row, "Material"))
  /\ ~isNaN(Number(CellUnder(response, row, "Quantity")))

\* the valid rows: movement 101 or 201, a material, a quantity that parses to a finite number
ValidRow(response, row) ==
  /\ MovementOf(response, row) \in {M101, M201}
  /\ Truthy(CellUnder(response, row, "Material"))
  /\ IsFinite(Number(CellUnder(response, row, "Quantity")))

(***************************************************************************)
(* C1: every summary has balance = totalIn - totalOut, totalIn >= 0 and    *)
(* totalOut >= 0, whatever the signs of the quantities.                    *)
(***************************************************************************)
C1_BalanceAndSigns ==
  \A i \in 1..Len(inventoryData) :
    LET m == inventoryData[i]
    IN /\ JsNumEq(m.balance, JsSub(m.totalIn, m.totalOut))
       /\ JsLe(Fin(0), m.totalIn)
       /\ JsLe(Fin(0), m.totalOut)

\* the valid rows of a material under a movement type
ValidCount(response, material, movement) ==
  Cardinality({j \in 1..Len(response.rows) :
                 /\ ValidRow(response, response.rows[j])
                 /\ CellUnder(response, response.rows[j], "Material") = material
                 /\ MovementOf(response, response.rows[j]) = movement})

(***************************************************************************)
(* C2: for every summary, inTransactions holds as many entries as the      *)
(* material has valid 101 rows and outTransactions as many as it has valid *)
(* 201 rows; rows that are not valid contribute nothing.                   *)
(***************************************************************************)
C2_TransactionCounts ==
  lastUpdated # Null =>
    \A i \in 1..Len(inventoryData) :
      LET m == inventoryData[i]
      IN /\ Len(m.inTransactions) = ValidCount(SourceOfData, m.material, M101)
         /\ Len(m.outTransactions) = ValidCount(SourceOfData, m.material, M201)

\* the first non-empty description among the admitted rows of a material
FirstDescription(response, material) ==
  LET Has(j) == /\ AdmittedRow(response, response.rows[j])
                /\ CellUnder(response, response.rows[j], "Material") = material
                /\ Truthy(CellUnder(response, response.rows[j], "Material Description"))
  IN IF \E j \in 1..Len(response.rows) : Has(j)
     THEN CellUnder(response,
                    response.rows[CHOOSE j \in 1..Len(response.rows) : Has(j) /\ \A k \in 1..(j - 1) : ~Has(k)],
                    "Material Description")
     ELSE NoDescription

(***************************************************************************)
(* C8: materialDescription is the first non-empty Material Description     *)
(* among the material's admitted rows, and the placeholder only when none  *)
(* of them carries one.                                                    *)
(***************************************************************************)
C8_FirstNonEmptyDescription ==
  lastUpdated # Null =>
    \A i \in 1..Len(inventoryData) :
      inventoryData[i].materialDescription = FirstDescription(SourceOfData, inventoryData[i].material)

(***************************************************************************)
(* Export: the first load answered by a table of one material, received    *)
(* and issued once, whose texts are drawn from a small alphabet; then the  *)
(* modal is opened and both exports are run.                               *)
(***************************************************************************)
ExportChars == {"a", ",", "\"", "\n"}

\* the texts of at most n characters
FieldTexts(n) == UNION {[1..k -> ExportChars] : k \in 0..n}

ExportTables(n) ==
  {[headers |-> FullHeaders,
    rows |-> <<Row(m, d, Fin(5), <<"E", "A">>, Str(M101), d, 1),
               Row(m, d, Fin(2), <<"E", "A">>, Str(M201), d, 2)>>] :
     m \in FieldTexts(n) \ {<<>>}, d \in FieldTexts(n)}

NextExport ==
  \/ \E i \in PendingLoads : \E r \in ExportTables(MaxFieldLen) : subscribeNext(i, r)
  \/ LET page == paginatedInventory
     IN \E i \in Clickable(page) : showItemDashboard(page[i])
  \/ \E type \in {"in", "out"} : showDetailedView(type)
  \/ \E type \in {"from", "to"} : onDateChange(IsoDate(2), type)
  \/ closeDashboard
  \/ exportInventoryToCsv
  \/ exportToCsv

SpecExport == Init /\ [][NextExport]_vars

RECURSIVE ScanField(_, _, _, _)
\* an RFC 4180 reader, one field: the field is quoted (a doubled quote
\* inside it is one quote; commas and line breaks inside it are text) or
\* runs to the next comma or line break.  The result is the field's text
\* and the place of the comma or line break that ends it (past the end of
\* the text when nothing does)
ScanField(text, i, mode, field) ==
  IF i > Len(text) THEN [field |-> field, stop |-> i]
  ELSE LET c == text[i]
       IN IF mode = "start"
          THEN (IF c = "\"" THEN ScanField(text, i + 1, "quoted", field)
                ELSE IF c \in {",", "\n"} THEN [field |-> field, stop |-> i]
                ELSE ScanField(text, i + 1, "plain", Append(field, c)))
          ELSE IF mode = "plain"
          THEN (IF c \in {",", "\n"} THEN [field |-> field, stop |-> i]
                ELSE ScanField(text, i + 1, "plain", Append(field, c)))
          ELSE IF mode = "quoted"
          THEN (IF c = "\"" THEN ScanField(text, i + 1, "closing", field)
                ELSE ScanField(text, i + 1, "quoted", Append(field, c)))
          ELSE (IF c = "\"" THEN ScanField(text, i + 1, "quoted", Append(field, c))
                ELSE IF c \in {",", "\n"} THEN [field |-> field, stop |-> i]
                ELSE ScanField(text, i + 1, "plain", Append(field, c)))

RECURSIVE ScanRecords(_, _, _, _)
\* the records: a line break outside quotes ends a record, and the last
\* record may end with the text or with a line break
ScanRecords(text, i, record, records) ==
  LET f == ScanField(text, i, "start", <<>>)
  IN IF f.stop > Len(text) THEN Append(records, Append(record, f.field))
     ELSE IF text[f.stop] = "," THEN ScanRecords(text, f.stop + 1, Append(record, f.field), records)
     ELSE IF f.stop = Len(text) THEN Append(records, Append(record, f.field))
     ELSE ScanRecords(text, f.stop + 1, <<>>, Append(records, Append(record, f.field)))

ParseCsv(text) == ScanRecords(text, 1, <<>>, <<>>)

\* the field values of the exported records, numbers as their decimal text
InventoryFields(item) ==
  <<JoinText(item.material), item.materialDescription.s, NumberToString(item.totalIn),
    NumberToString(item.totalOut), NumberToString(item.balance), JoinText(item.unit)>>

TransactionFields(tx, type) ==
  <<JoinText(tx.postingDate), NumberToString(IF type = "in" THEN tx.quantity ELSE JsNeg(tx.quantity)),
    tx.user.s, tx.costCenter.s, tx.document.s, tx.reservation.s, tx.headerText.s, tx.text.s>>

ExpectedRecords(file) ==
  IF file.kind = "inventory"
  THEN <<InventoryHeaders>> \o [i \in 1..Len(file.records) |-> InventoryFields(file.records[i])]
  ELSE <<TransactionHeaders>> \o [i \in 1..Len(file.records) |-> TransactionFields(file.records[i], file.type)]

(***************************************************************************)
(* C7: the text of an export, read back by an RFC 4180 reader, is one      *)
(* record per exported item after the header row, each with the header's   *)
(* number of fields and the field values of the in-memory record.          *)
(***************************************************************************)
C7_CsvRoundTrip == download # Null => ParseCsv(download[1].content) = ExpectedRecords(download[1])

(***************************************************************************)
(* C5: every step that alters the base-filtered set leaves currentPage 1.  *)
(***************************************************************************)
C5_FilterChangeResetsPage ==
  [][baseFilteredInventory' # baseFilteredInventory => currentPage' = 1]_vars

(***************************************************************************)
(* C6: selectedMaterial is null or (by its material id) an entry of the    *)
(* current inventoryData.                                                  *)
(***************************************************************************)
C6_SelectionInCollection ==
  \/ selectedMaterial = Null
  \/ \E i \in 1..Len(inventoryData) : inventoryData[i].material = selectedMaterial[1].material

(***************************************************************************)
(* C9: 1 <= currentPage <= max(1, totalPages), and the page shown is not   *)
(* empty when the base-filtered set is not.                                *)
(***************************************************************************)
C9_PageWithinBounds ==
  /\ 1 <= currentPage
  /\ currentPage <= (IF totalPages > 1 THEN totalPages ELSE 1)
  /\ baseFilteredInventory # <<>> => paginatedInventory # <<>>

(***************************************************************************)
(* C10: loading is true while a load is in flight, and once no load is in  *)
(* flight the state is that of the load started last: its data and no      *)
(* error when it succeeded, an error when it failed.                       *)
(***************************************************************************)
C10_LatestLoadWins ==
  /\ (\E i \in 1..Len(loads) : loads[i].status = "pending") => loading = TRUE
  /\ (\A i \in 1..Len(loads) : loads[i].status # "pending") =>
       LET last == loads[Len(loads)]
       IN IF last.status = "next" /\ processData(last.response).ok
          THEN error = Null /\ inventoryData = processData(last.response).data
          ELSE error # Null
====
